---- MODULE Spec2Model ----
(***************************************************************************)
(* Timeline transformation engine of the video worker                      *)
(* (python-worker/timeline_manager.py): a TimelineManager owning the cuts  *)
(* registered against one video, its queries, and the subtitle resync      *)
(* function adjust_subtitle_timestamps.                                    *)
(*                                                                         *)
(* Time is modelled in integer ticks.  Every public operation is one       *)
(* action; the action records the call (op, args) and its outcome (ret,    *)
(* raised) so that properties of results are state predicates.             *)
(***************************************************************************)
EXTENDS Integers, Sequences, FiniteSets

\* Largest original_duration a TimelineManager is constructed with.
MaxDuration == 5
\* Largest number of successful add_cut calls on one TimelineManager.
MaxCuts == 2
\* Largest number of cuts registered before the merged cuts are registered
\* again in a fresh TimelineManager.
MaxManyCuts == 3
\* Largest number of backend invocations of one job that raise ffmpeg.Error.
MaxBackendErrors == 1

VARIABLES
    original_duration,   \* TimelineManager.original_duration
    removed_intervals,   \* TimelineManager.removed_intervals (list of TimeInterval)
    sorted,              \* TimelineManager._sorted
    op,                  \* name of the last operation called
    args,                \* the arguments of the last query (<<>> for add_cut)
    ret,                 \* its return value ("none" when it raised or returns None)
    raised,              \* TRUE iff the last operation raised ValueError
    job,                 \* the job of process_video and its ProcessingPipeline
    worker               \* two jobs of one server process and the files they share

vars == <<original_duration, removed_intervals, sorted, op, args, ret, raised, job,
          worker>>

\* The TimelineManager object itself.
timeline == <<original_duration, removed_intervals, sorted>>

-----------------------------------------------------------------------------
(* TimeInterval *)

TimeInterval(s, e) == [start |-> s, end |-> e]

duration(i) == i.end - i.start

contains(i, t) == i.start <= t /\ t <= i.end

overlaps(a, b) == a.start < b.end /\ b.start < a.end

Max(a, b) == IF a >= b THEN a ELSE b

-----------------------------------------------------------------------------
(* TimelineManager: add_cut *)

\* Variant: the emptiness test written with > instead of >=.
add_cut_rejects_strict(start, end, D) ==
    \/ (start < 0 \/ end > D)
    \/ start > end

\* The two validation tests of add_cut; TRUE iff the call raises ValueError.
add_cut_rejects(start, end, D) ==
    \/ (start < 0 \/ end > D)
    \/ start >= end

-----------------------------------------------------------------------------
(* TimelineManager: _ensure_sorted and _merge_overlapping_cuts *)

\* list.sort(key=start) is stable: x goes after every element whose start
\* is <= x.start.
RECURSIVE InsertByStart(_, _)
InsertByStart(x, s) ==
    IF s = <<>> THEN <<x>>
    ELSE IF Head(s).start <= x.start
         THEN <<Head(s)>> \o InsertByStart(x, Tail(s))
         ELSE <<x>> \o s

RECURSIVE SortByStart(_)
SortByStart(s) ==
    IF s = <<>> THEN <<>>
    ELSE InsertByStart(s[Len(s)], SortByStart(SubSeq(s, 1, Len(s) - 1)))

\* Variant: the dirty flag is ignored and the list is used as it stands.
ensure_sorted_never(ri, flag) == ri

\* removed_intervals after _ensure_sorted.
ensure_sorted(ri, flag) == IF ~flag THEN SortByStart(ri) ELSE ri

\* Variant: adjacency is not merged.
merge_test_overlap_only(current, interval) == overlaps(current, interval)

\* The test that folds the next interval into the running one.
merge_test(current, interval) ==
    overlaps(current, interval) \/ current.end = interval.start

\* Variant: the end of the later interval always wins.
merge_end_last(current, interval) == interval.end

\* The end of the running interval after folding the next one in.
merge_end(current, interval) == Max(current.end, interval.end)

\* Variant: the next interval is tested against the interval before it in the
\* list instead of the running interval.
RECURSIVE MergeLoopAgainstPrevious(_, _, _, _)
MergeLoopAgainstPrevious(ri, i, current, merged) ==
    IF i > Len(ri) THEN Append(merged, current)
    ELSE IF merge_test(ri[i - 1], ri[i])
         THEN MergeLoopAgainstPrevious(ri, i + 1,
                  TimeInterval(current.start, merge_end(current, ri[i])),
                  merged)
         ELSE MergeLoopAgainstPrevious(ri, i + 1, ri[i], Append(merged, current))

\* The for loop of _merge_overlapping_cuts over ri[i..], with the running
\* interval current and the list merged built so far.
RECURSIVE MergeLoop(_, _, _, _)
MergeLoop(ri, i, current, merged) ==
    IF i > Len(ri) THEN Append(merged, current)
    ELSE IF merge_test(current, ri[i])
         THEN MergeLoop(ri, i + 1,
                        TimeInterval(current.start, merge_end(current, ri[i])),
                        merged)
         ELSE MergeLoop(ri, i + 1, ri[i], Append(merged, current))

\* Return value of _merge_overlapping_cuts.
merge_overlapping_cuts(ri, flag) ==
    IF ri = <<>> THEN <<>>
    ELSE LET s == ensure_sorted(ri, flag) IN MergeLoop(s, 2, s[1], <<>>)

\* removed_intervals and _sorted after a call of _merge_overlapping_cuts.
ri_after_merge(ri, flag) == IF ri = <<>> THEN ri ELSE ensure_sorted(ri, flag)
flag_after_merge(ri, flag) == IF ri = <<>> THEN flag ELSE TRUE

-----------------------------------------------------------------------------
(* TimelineManager: queries *)

RECURSIVE SumDurations(_)
SumDurations(cuts) ==
    IF cuts = <<>> THEN 0 ELSE duration(Head(cuts)) + SumDurations(Tail(cuts))

\* Variant: the registered cuts are summed without merging them.
get_edited_duration_unmerged(D, ri, flag) ==
    D - SumDurations(ri)

\* Return value of get_edited_duration.
get_edited_duration(D, ri, flag) ==
    D - SumDurations(merge_overlapping_cuts(ri, flag))

\* What map_timestamp returns for a timestamp strictly inside cut, with
\* removed_before the duration of the merged cuts before it.
map_inside_cut(cut, t, removed_before) ==
    cut.start - (removed_before + (t - cut.start))

\* Variant: the end of the cut is accumulated instead of its duration.
map_removed_end(cut) == cut.end

\* What map_timestamp adds to removed_before for a cut ending at or before
\* the timestamp.
map_removed(cut) == duration(cut)

\* Variant: a cut ending exactly at the timestamp is not counted.
map_cut_before_strict(cut, t) == cut.end < t

\* The test of map_timestamp for a cut that lies entirely before the timestamp.
map_cut_before(cut, t) == cut.end <= t

\* The for loop of map_timestamp over merged_cuts[i..].
RECURSIVE MapLoop(_, _, _, _)
MapLoop(merged_cuts, i, t, removed_before) ==
    IF i > Len(merged_cuts) THEN t - removed_before
    ELSE LET cut == merged_cuts[i] IN
         IF map_cut_before(cut, t)
         THEN MapLoop(merged_cuts, i + 1, t, removed_before + map_removed(cut))
         ELSE IF cut.start < t /\ t < cut.end
              THEN map_inside_cut(cut, t, removed_before)
              ELSE t - removed_before

\* Variant: a timestamp after the end of the video is mapped like any other.
map_timestamp_unclamped(t, D, ri, flag) ==
    IF t < 0 THEN 0
    ELSE MapLoop(merge_overlapping_cuts(ri, flag), 1, t, 0)

\* Return value of map_timestamp.
map_timestamp(t, D, ri, flag) ==
    IF t < 0 THEN 0
    ELSE IF t > D THEN get_edited_duration(D, ri, flag)
    ELSE MapLoop(merge_overlapping_cuts(ri, flag), 1, t, 0)

\* Variant: a zero-length gap is emitted too.
kept_gap_closed(current_time, cut) == current_time <= cut.start

\* The test of get_kept_segments that emits the segment before a cut.
kept_gap(current_time, cut) == current_time < cut.start

\* Variant: the scan resumes at the start of the cut.
kept_resume_start(cut) == cut.start

\* The time at which get_kept_segments resumes after a cut.
kept_resume(cut) == cut.end

\* The for loop of get_kept_segments over merged_cuts[i..].
RECURSIVE KeptLoop(_, _, _, _)
KeptLoop(merged_cuts, i, current_time, segments) ==
    IF i > Len(merged_cuts) THEN <<current_time, segments>>
    ELSE LET cut == merged_cuts[i] IN
         KeptLoop(merged_cuts, i + 1, kept_resume(cut),
                  IF kept_gap(current_time, cut)
                  THEN Append(segments, <<current_time, cut.start>>)
                  ELSE segments)

\* Return value of get_kept_segments.
get_kept_segments(D, ri, flag) ==
    LET merged_cuts == merge_overlapping_cuts(ri, flag) IN
    IF merged_cuts = <<>> THEN << <<0, D>> >>
    ELSE LET r == KeptLoop(merged_cuts, 1, 0, <<>>) IN
         IF r[1] < D THEN Append(r[2], <<r[1], D>>) ELSE r[2]

\* Variant: the end points of a cut are not treated as cut.
validate_timestamp_open(t, D, ri, flag) ==
    LET merged_cuts == merge_overlapping_cuts(ri, flag) IN
    IF \E i \in 1..Len(merged_cuts) :
           merged_cuts[i].start < t /\ t < merged_cuts[i].end
    THEN FALSE
    ELSE 0 <= t /\ t <= D

\* Return value of validate_timestamp.
validate_timestamp(t, D, ri, flag) ==
    LET merged_cuts == merge_overlapping_cuts(ri, flag) IN
    IF \E i \in 1..Len(merged_cuts) : contains(merged_cuts[i], t)
    THEN FALSE
    ELSE 0 <= t /\ t <= D

\* Variant: total_cuts counts the merged cuts.
get_summary_merged_total(D, ri, flag) ==
    LET merged_cuts == merge_overlapping_cuts(ri, flag)
        ri1 == ri_after_merge(ri, flag)
        f1 == flag_after_merge(ri, flag)
    IN [original_duration |-> D,
        edited_duration |-> get_edited_duration(D, ri1, f1),
        total_cuts |-> Len(merged_cuts),
        merged_cuts |-> Len(merged_cuts),
        total_removed |-> SumDurations(merged_cuts),
        kept_segments |-> Len(get_kept_segments(D, ri1, f1))]

\* Return value of get_summary.
get_summary(D, ri, flag) ==
    LET merged_cuts == merge_overlapping_cuts(ri, flag)
        ri1 == ri_after_merge(ri, flag)
        f1 == flag_after_merge(ri, flag)
    IN [original_duration |-> D,
        edited_duration |-> get_edited_duration(D, ri1, f1),
        total_cuts |-> Len(ri1),
        merged_cuts |-> Len(merged_cuts),
        total_removed |-> SumDurations(merged_cuts),
        kept_segments |-> Len(get_kept_segments(D, ri1, f1))]

-----------------------------------------------------------------------------
(* adjust_subtitle_timestamps *)

\* Variant: a subtitle is skipped as soon as one end is cut.
resync_skips_either(start_valid, end_valid) == ~start_valid \/ ~end_valid

\* The test that skips a subtitle before its timestamps are mapped.
resync_skips(start_valid, end_valid) == ~start_valid /\ ~end_valid

\* The test that emits a mapped subtitle.
resync_keeps(new_start, new_end) == new_end > new_start

\* Variant: the mapped subtitle is put in front of the list.
resync_emit_front(adjusted, subtitle) == <<subtitle>> \o adjusted

\* adjusted.append(subtitle)
resync_emit(adjusted, subtitle) == Append(adjusted, subtitle)

\* The for loop of adjust_subtitle_timestamps over subtitles[i..].  The first
\* query sorts the registered cuts; ri and flag are the timeline's fields as
\* the iteration finds them.
RECURSIVE ResyncLoop(_, _, _, _, _, _)
ResyncLoop(subtitles, i, D, ri, flag, adjusted) ==
    IF i > Len(subtitles) THEN adjusted
    ELSE LET subtitle == subtitles[i]
             start == subtitle.start
             end == subtitle.end
             ri1 == ri_after_merge(ri, flag)
             f1 == flag_after_merge(ri, flag)
         IN IF resync_skips(validate_timestamp(start, D, ri, flag),
                            validate_timestamp(end, D, ri1, f1))
            THEN ResyncLoop(subtitles, i + 1, D, ri1, f1, adjusted)
            ELSE LET new_start == map_timestamp(start, D, ri1, f1)
                     new_end == map_timestamp(end, D, ri1, f1)
                 IN ResyncLoop(subtitles, i + 1, D, ri1, f1,
                        IF resync_keeps(new_start, new_end)
                        THEN resync_emit(adjusted,
                                         [subtitle EXCEPT !.start = new_start,
                                                          !.end = new_end])
                        ELSE adjusted)

\* Return value of adjust_subtitle_timestamps.
adjust_subtitle_timestamps(subtitles, D, ri, flag) ==
    ResyncLoop(subtitles, 1, D, ri, flag, <<>>)

-----------------------------------------------------------------------------
(* Inputs *)

\* Timestamps passed to the TimelineManager: the original axis and one tick
\* on either side of it.
Times == -1..(original_duration + 1)

\* Timestamps of a subtitle segment (ai_models.SubtitleSegment: ge=0).
SubTimes == 0..(original_duration + 1)

Subtitle(start, end, text) == [start |-> start, end |-> end, text |-> text]

\* Subtitle lists handed to adjust_subtitle_timestamps: the empty list,
\* every list of one subtitle, and every pair of a subtitle and a second one
\* that runs from the end of the first to the end of the video.
SubtitleLists ==
    {<<>>}
    \cup {<<Subtitle(s, e, "a")>> : s \in SubTimes, e \in SubTimes}
    \cup {<<Subtitle(sub[1], sub[2], "a"), Subtitle(sub[2], original_duration, "b")>> :
            sub \in {x \in SubTimes \X SubTimes :
                        x[1] < x[2] /\ x[2] < original_duration}}

\* Lists of two subtitles of one tick each, in either order of time.
OrderSubtitleLists ==
    {<<Subtitle(s1, s1 + 1, "a"), Subtitle(s2, s2 + 1, "b")>> :
        s1 \in 0..(original_duration - 1), s2 \in 0..(original_duration - 1)}

-----------------------------------------------------------------------------
(* State machine *)

\* An edit plan (AIEditingScript), reduced to what ProcessingPipeline.execute
\* reads of it.
EmptyScript ==
    [normalize |-> FALSE, audio |-> "none", cuts |-> <<>>, highlights |-> <<>>,
     transitions |-> FALSE, subtitles |-> <<>>]

\* No request has been received yet.
NoJob ==
    [pc |-> "idle", script |-> EmptyScript, current_video |-> "none",
     trace |-> <<>>, backend_errors |-> {}, exception |-> "none",
     backend_cuts |-> "none", keep_segments |-> "none",
     handed_highlights |-> "none", cancel_at |-> -1,
     status |-> "none", error |-> "none", returned |-> FALSE,
     output_written |-> FALSE]

\* The two job identifiers of the requests a server process receives.
JobIds == {"job_a", "job_b"}

\* The files of TEMP_DIR / "processing" that every pipeline writes.
TempFiles == {"07_color_graded.mp4", "09_final_output.mp4"}

\* A server process that has received no request: job_status is empty and
\* the processing directory holds no file.  processing maps a file to the job
\* that wrote it last.
NoWorker ==
    [pc |-> [j \in JobIds |-> "idle"],
     current_video |-> [j \in JobIds |-> "none"],
     processing |-> [f \in TempFiles |-> "none"],
     job_status |-> [j \in JobIds |-> "none"],
     outputs |-> {}]

\* TimelineManager(original_duration): the duration is positive, no cut is
\* registered, and no operation has been called.
Init ==
    /\ original_duration \in 1..MaxDuration
    /\ removed_intervals = <<>>
    /\ sorted = TRUE
    /\ op = "__init__"
    /\ args = <<original_duration>>
    /\ ret = "none"
    /\ raised = FALSE
    /\ job = NoJob
    /\ worker = NoWorker

\* add_cut(start, end)
AddCut(start, end) ==
    /\ Len(removed_intervals) < MaxCuts
    /\ op' = "add_cut"
    /\ args' = <<>>
    /\ ret' = "none"
    /\ IF add_cut_rejects(start, end, original_duration)
       THEN /\ raised' = TRUE
            /\ UNCHANGED <<original_duration, removed_intervals, sorted>>
       ELSE /\ raised' = FALSE
            /\ removed_intervals' = Append(removed_intervals, TimeInterval(start, end))
            /\ sorted' = FALSE
            /\ UNCHANGED original_duration

\* What every query that starts with _merge_overlapping_cuts does to the
\* TimelineManager.
Merged ==
    /\ removed_intervals' = ri_after_merge(removed_intervals, sorted)
    /\ sorted' = flag_after_merge(removed_intervals, sorted)
    /\ UNCHANGED original_duration

\* _merge_overlapping_cuts()
MergeOverlappingCuts ==
    /\ op' = "_merge_overlapping_cuts"
    /\ args' = <<>>
    /\ ret' = merge_overlapping_cuts(removed_intervals, sorted)
    /\ raised' = FALSE
    /\ Merged

\* map_timestamp(t)
MapTimestamp(t) ==
    /\ op' = "map_timestamp"
    /\ args' = <<t>>
    /\ ret' = map_timestamp(t, original_duration, removed_intervals, sorted)
    /\ raised' = FALSE
    /\ IF t < 0
       THEN UNCHANGED <<original_duration, removed_intervals, sorted>>
       ELSE Merged

\* get_edited_duration()
GetEditedDuration ==
    /\ op' = "get_edited_duration"
    /\ args' = <<>>
    /\ ret' = get_edited_duration(original_duration, removed_intervals, sorted)
    /\ raised' = FALSE
    /\ Merged

\* get_kept_segments()
GetKeptSegments ==
    /\ op' = "get_kept_segments"
    /\ args' = <<>>
    /\ ret' = get_kept_segments(original_duration, removed_intervals, sorted)
    /\ raised' = FALSE
    /\ Merged

\* validate_timestamp(t)
ValidateTimestamp(t) ==
    /\ op' = "validate_timestamp"
    /\ args' = <<t>>
    /\ ret' = validate_timestamp(t, original_duration, removed_intervals, sorted)
    /\ raised' = FALSE
    /\ Merged

\* get_summary()
GetSummary ==
    /\ op' = "get_summary"
    /\ args' = <<>>
    /\ ret' = get_summary(original_duration, removed_intervals, sorted)
    /\ raised' = FALSE
    /\ Merged

\* adjust_subtitle_timestamps(subtitles, timeline)
Resync(subtitles) ==
    /\ op' = "adjust_subtitle_timestamps"
    /\ args' = <<subtitles>>
    /\ ret' = adjust_subtitle_timestamps(subtitles, original_duration,
                                         removed_intervals, sorted)
    /\ raised' = FALSE
    /\ IF subtitles = <<>>
       THEN UNCHANGED <<original_duration, removed_intervals, sorted>>
       ELSE Merged

\* A TimelineManager and its callers: cuts are registered and the queries
\* are called in any order.
Next ==
    \/ \E start \in Times, end \in Times : AddCut(start, end) /\ UNCHANGED <<job, worker>>
    \/ MergeOverlappingCuts /\ UNCHANGED <<job, worker>>
    \/ \E t \in Times : MapTimestamp(t) /\ UNCHANGED <<job, worker>>
    \/ GetEditedDuration /\ UNCHANGED <<job, worker>>
    \/ GetKeptSegments /\ UNCHANGED <<job, worker>>
    \/ \E t \in Times : ValidateTimestamp(t) /\ UNCHANGED <<job, worker>>
    \/ GetSummary /\ UNCHANGED <<job, worker>>

Spec == Init /\ [][Next]_vars

\* A TimelineManager on which only add_cut and get_summary are called.
NextAddCut ==
    \/ \E start \in Times, end \in Times : AddCut(start, end) /\ UNCHANGED <<job, worker>>
    \/ GetSummary /\ UNCHANGED <<job, worker>>

SpecAddCut == Init /\ [][NextAddCut]_vars

\* Step 3 of ProcessingPipeline.execute: the cuts of the edit plan are
\* registered, get_summary is logged, and the TimelineManager is handed to
\* adjust_subtitle_timestamps once.
NotResynced == op # "adjust_subtitle_timestamps"

NextResync ==
    \/ \E start \in Times, end \in Times :
           NotResynced /\ AddCut(start, end) /\ UNCHANGED <<job, worker>>
    \/ NotResynced /\ GetSummary /\ UNCHANGED <<job, worker>>
    \/ \E subtitles \in SubtitleLists :
           NotResynced /\ Resync(subtitles) /\ UNCHANGED <<job, worker>>

SpecResync == Init /\ [][NextResync]_vars

\* A pipeline that resyncs a list of two subtitles.
NextResyncOrder ==
    \/ \E start \in Times, end \in Times :
           NotResynced /\ AddCut(start, end) /\ UNCHANGED <<job, worker>>
    \/ \E subtitles \in OrderSubtitleLists :
           NotResynced /\ Resync(subtitles) /\ UNCHANGED <<job, worker>>

SpecResyncOrder == Init /\ [][NextResyncOrder]_vars

-----------------------------------------------------------------------------
(* Registering the merged cuts again *)

\* add_cut called for cuts[i..] in turn on a TimelineManager whose list is ri;
\* a cut that add_cut rejects leaves the list as it is.
RECURSIVE RegisterLoop(_, _, _, _)
RegisterLoop(cuts, i, D, ri) ==
    IF i > Len(cuts) THEN ri
    ELSE RegisterLoop(cuts, i + 1, D,
             IF add_cut_rejects(cuts[i].start, cuts[i].end, D)
             THEN ri
             ELSE Append(ri, TimeInterval(cuts[i].start, cuts[i].end)))

\* add_cut(start, end), up to MaxManyCuts registered cuts.
AddCutMany(start, end) ==
    /\ Len(removed_intervals) < MaxManyCuts
    /\ op' = "add_cut"
    /\ args' = <<>>
    /\ ret' = "none"
    /\ IF add_cut_rejects(start, end, original_duration)
       THEN /\ raised' = TRUE
            /\ UNCHANGED <<original_duration, removed_intervals, sorted>>
       ELSE /\ raised' = FALSE
            /\ removed_intervals' = Append(removed_intervals, TimeInterval(start, end))
            /\ sorted' = FALSE
            /\ UNCHANGED original_duration

\* The queries are called, then a second TimelineManager(original_duration)
\* is constructed and add_cut is called on it for each merged cut of the
\* first; the second manager becomes the state and ret remembers what the
\* first one answered.
Reregister ==
    LET merged_cuts == merge_overlapping_cuts(removed_intervals, sorted)
        fresh == RegisterLoop(merged_cuts, 1, original_duration, <<>>)
    IN /\ op' = "reregister"
       /\ args' = <<merged_cuts>>
       /\ ret' = [merged_cuts |-> merged_cuts,
                  edited_duration |->
                      get_edited_duration(original_duration, removed_intervals, sorted),
                  kept_segments |->
                      get_kept_segments(original_duration, removed_intervals, sorted)]
       /\ raised' = FALSE
       /\ removed_intervals' = fresh
       /\ sorted' = (fresh = <<>>)
       /\ UNCHANGED original_duration

NotReregistered == op # "reregister"

NextReregister ==
    \/ \E start \in Times, end \in Times :
           NotReregistered /\ AddCutMany(start, end) /\ UNCHANGED <<job, worker>>
    \/ NotReregistered /\ Reregister /\ UNCHANGED <<job, worker>>

SpecReregister == Init /\ [][NextReregister]_vars

-----------------------------------------------------------------------------
(* process_video and ProcessingPipeline.execute *)

\* What one invocation of the rendering backend can do: finish, raise
\* ffmpeg.Error, or raise any other exception (the ffmpeg binary cannot be
\* started, a file cannot be written).
BackendOutcomes == {"ok", "ffmpeg_error", "exception"}

\* shutil.copy2 does not raise ffmpeg.Error.
CopyOutcomes == {"ok", "exception"}

\* Variant: the subtitles are burned in before the aspect ratio is converted.
next_stage_subtitles_first(stage) ==
    CASE stage = "normalize" -> "audio"
      [] stage = "audio" -> "register_cuts"
      [] stage = "register_cuts" -> "jump_cuts"
      [] stage = "jump_cuts" -> "resync"
      [] stage = "resync" -> "highlights"
      [] stage = "highlights" -> "transitions"
      [] stage = "transitions" -> "color"
      [] stage = "color" -> "subtitles"
      [] stage = "subtitles" -> "aspect"
      [] stage = "aspect" -> "finalize"
      [] stage = "finalize" -> "executed"

\* The step of execute that follows a step.
next_stage(stage) ==
    CASE stage = "normalize" -> "audio"
      [] stage = "audio" -> "register_cuts"
      [] stage = "register_cuts" -> "jump_cuts"
      [] stage = "jump_cuts" -> "resync"
      [] stage = "resync" -> "highlights"
      [] stage = "highlights" -> "transitions"
      [] stage = "transitions" -> "color"
      [] stage = "color" -> "aspect"
      [] stage = "aspect" -> "subtitles"
      [] stage = "subtitles" -> "finalize"
      [] stage = "finalize" -> "executed"

\* Variant: execute logs the exception and returns output_path.
on_exception_swallowed(j, cause) ==
    [j EXCEPT !.pc = "executed", !.exception = cause]

\* An exception leaves execute through its except clause, which raises it
\* again, and reaches the except clause of process_video.
on_exception(j, cause) ==
    [j EXCEPT !.pc = "failed", !.exception = cause,
              !.status = "failed", !.error = cause]

\* Variant: the step runs the backend although its condition is false.
skip_stage_runs(j, stage) ==
    [j EXCEPT !.pc = next_stage(stage), !.trace = Append(@, stage),
              !.current_video = "output.mp4"]

\* A step of execute whose condition is false.
skip_stage(j, stage) == [j EXCEPT !.pc = next_stage(stage)]

\* A step of execute that runs without invoking the backend and hands the
\* video on as it is.
pass_through(j, stage) ==
    [j EXCEPT !.pc = next_stage(stage), !.trace = Append(@, stage)]

\* A step of execute whose processor invokes the backend to write output.
\* The processor catches ffmpeg.Error and returns the path it was given.
run_backend(j, stage, output, outcome) ==
    CASE outcome = "ok" ->
             [j EXCEPT !.pc = next_stage(stage), !.trace = Append(@, stage),
                       !.current_video = output]
      [] outcome = "ffmpeg_error" ->
             [j EXCEPT !.pc = next_stage(stage), !.trace = Append(@, stage),
                       !.backend_errors = @ \cup {stage}]
      [] outcome = "exception" ->
             on_exception([j EXCEPT !.trace = Append(@, stage),
                                    !.backend_errors = @ \cup {stage}],
                          "OSError")

\* The for loop of apply_jump_cuts over sorted_cuts[i..].
RECURSIVE JumpKeepLoop(_, _, _, _)
JumpKeepLoop(sorted_cuts, i, current_time, keep_segments) ==
    IF i > Len(sorted_cuts) THEN <<current_time, keep_segments>>
    ELSE LET cut == sorted_cuts[i] IN
         JumpKeepLoop(sorted_cuts, i + 1, Max(current_time, cut.end),
                      IF cut.start > current_time
                      THEN Append(keep_segments, <<current_time, cut.start>>)
                      ELSE keep_segments)

\* keep_segments of apply_jump_cuts.
jump_keep_segments(cuts, D) ==
    LET r == JumpKeepLoop(SortByStart(cuts), 1, 0, <<>>) IN
    IF r[1] < D THEN Append(r[2], <<r[1], D>>) ELSE r[2]

\* The subtitle segments execute stores after the resync: start clamped to
\* 0, subtitles whose end is not positive left out.  max(0.01, end) is the
\* end itself for a positive number of ticks.
RECURSIVE ClampLoop(_, _, _)
ClampLoop(adjusted, i, segments) ==
    IF i > Len(adjusted) THEN segments
    ELSE ClampLoop(adjusted, i + 1,
             IF adjusted[i].end > 0
             THEN Append(segments,
                         [adjusted[i] EXCEPT !.start = Max(0, adjusted[i].start)])
             ELSE segments)

\* The plans a request can carry.  JumpCut, Highlight and SubtitleSegment
\* only require start >= 0 and end >= 0, so a plan can hold a cut that ends
\* after the video or that is empty.
Highlight(start, end) == [start |-> start, end |-> end, effects |-> "zoom"]

PlanCutLists ==
    {<<>>, <<TimeInterval(1, 2), TimeInterval(0, 1)>>}
    \cup {<<TimeInterval(c[1], c[2])>> :
            c \in {<<0, 1>>, <<1, original_duration>>, <<0, original_duration>>,
                   <<original_duration - 1, original_duration + 1>>, <<1, 1>>}}

PlanSubtitleLists ==
    {<<>>, <<Subtitle(0, original_duration, "a")>>,
     <<Subtitle(0, 1, "a"), Subtitle(1, original_duration, "b")>>}

PlanHighlightLists ==
    {<<>>, <<Highlight(0, 1)>>, <<Highlight(1, original_duration)>>}

\* The settings of a plan that switch steps on and off: nothing optional,
\* everything with volume adjustments, and normalization with audio segments
\* that only denoise.
PlanSettings ==
    {[normalize |-> FALSE, audio |-> "none", transitions |-> FALSE],
     [normalize |-> TRUE, audio |-> "volume", transitions |-> TRUE],
     [normalize |-> TRUE, audio |-> "denoise", transitions |-> FALSE]}

Scripts ==
    {[normalize |-> p.normalize, audio |-> p.audio, cuts |-> cuts,
      highlights |-> highlights, transitions |-> p.transitions,
      subtitles |-> subtitles] :
        p \in PlanSettings, cuts \in PlanCutLists,
        highlights \in PlanHighlightLists, subtitles \in PlanSubtitleLists}

\* The outcomes left to a backend invocation of the job.
Outcomes ==
    IF Cardinality(job.backend_errors) < MaxBackendErrors
    THEN BackendOutcomes
    ELSE BackendOutcomes \ {"ffmpeg_error"}

\* The variables of the TimelineManager and of its last call.
manager == <<original_duration, removed_intervals, sorted, op, args, ret, raised>>

\* process_video up to the construction of the ProcessingPipeline, which
\* probes the uploaded video and raises if the probe fails.
StartJob(script, outcome) ==
    /\ job.pc = "idle"
    /\ job' = IF outcome = "ok"
              THEN [job EXCEPT !.pc = "normalize", !.script = script,
                               !.current_video = "input.mp4",
                               !.status = "processing"]
              ELSE on_exception([job EXCEPT !.status = "processing"], "OSError")
    /\ UNCHANGED manager

\* Step 1: audio_processor.normalize
Normalize(outcome) ==
    /\ job.pc = "normalize"
    /\ job' = IF job.script.normalize
              THEN run_backend(job, "normalize", "01_normalized_audio.mp4", outcome)
              ELSE skip_stage(job, "normalize")
    /\ UNCHANGED manager

\* Step 2: audio_processor.apply_dynamic_adjustments
DynamicAudio(outcome) ==
    /\ job.pc = "audio"
    /\ job' = CASE job.script.audio = "none" -> skip_stage(job, "audio")
                [] job.script.audio = "denoise" -> pass_through(job, "audio")
                [] job.script.audio = "volume" ->
                       run_backend(job, "audio", "02_adjusted_audio.mp4", outcome)
    /\ UNCHANGED manager

\* Step 3, first part: the cuts of the plan are registered in the timeline
\* and get_summary is called.  Without cuts the whole of step 3 is skipped.
RegisterCuts ==
    /\ job.pc = "register_cuts"
    /\ IF job.script.cuts = <<>>
       THEN /\ job' = [job EXCEPT !.pc = "highlights"]
            /\ UNCHANGED manager
       ELSE LET ri == RegisterLoop(job.script.cuts, 1, original_duration,
                                   removed_intervals)
                flag == IF ri = removed_intervals THEN sorted ELSE FALSE
            IN /\ job' = skip_stage(job, "register_cuts")
               /\ op' = "get_summary"
               /\ args' = <<>>
               /\ ret' = get_summary(original_duration, ri, flag)
               /\ raised' = FALSE
               /\ removed_intervals' = ri_after_merge(ri, flag)
               /\ sorted' = flag_after_merge(ri, flag)
               /\ UNCHANGED original_duration

\* Step 3, second part: video_processor.apply_jump_cuts with the cuts of the
\* plan.  Without a segment to keep the backend is not invoked.
JumpCuts(outcome) ==
    /\ job.pc = "jump_cuts"
    /\ LET keep_segments == jump_keep_segments(job.script.cuts, original_duration)
           j == [job EXCEPT !.backend_cuts = job.script.cuts,
                            !.keep_segments = keep_segments]
       IN job' = IF keep_segments = <<>>
                 THEN pass_through(j, "jump_cuts")
                 ELSE run_backend(j, "jump_cuts", "04_jump_cuts.mp4", outcome)
    /\ UNCHANGED manager

\* Step 3, third part: the subtitles of the plan are replaced by the ones
\* adjust_subtitle_timestamps returns.
ResyncSubtitles ==
    /\ job.pc = "resync"
    /\ IF job.script.subtitles = <<>>
       THEN /\ job' = skip_stage(job, "resync")
            /\ UNCHANGED manager
       ELSE LET adjusted == adjust_subtitle_timestamps(job.script.subtitles,
                                original_duration, removed_intervals, sorted)
            IN /\ job' = [pass_through(job, "resync") EXCEPT
                              !.script.subtitles = ClampLoop(adjusted, 1, <<>>)]
               /\ op' = "adjust_subtitle_timestamps"
               /\ args' = <<job.script.subtitles>>
               /\ ret' = adjusted
               /\ raised' = FALSE
               /\ Merged

\* Step 4: effects_processor.apply_highlights with the highlights of the plan
Highlights(outcome) ==
    /\ job.pc = "highlights"
    /\ job' = IF job.script.highlights = <<>>
              THEN skip_stage(job, "highlights")
              ELSE run_backend([job EXCEPT !.handed_highlights = job.script.highlights],
                               "highlights", "05a_zoomed.mp4", outcome)
    /\ UNCHANGED manager

\* Step 5: effects_processor.apply_transitions, which returns the video as
\* it is.
Transitions ==
    /\ job.pc = "transitions"
    /\ job' = IF job.script.transitions
              THEN pass_through(job, "transitions")
              ELSE skip_stage(job, "transitions")
    /\ UNCHANGED manager

\* Step 6: video_processor.apply_color_grading
ColorGrading(outcome) ==
    /\ job.pc = "color"
    /\ job' = run_backend(job, "color", "07_color_graded.mp4", outcome)
    /\ UNCHANGED manager

\* Step 7: video_processor.convert_aspect_ratio
AspectRatio(outcome) ==
    /\ job.pc = "aspect"
    /\ job' = run_backend(job, "aspect", "09_final_output.mp4", outcome)
    /\ UNCHANGED manager

\* Step 8: subtitle_processor.add_subtitles
BurnSubtitles(outcome) ==
    /\ job.pc = "subtitles"
    /\ job' = IF job.script.subtitles = <<>>
              THEN skip_stage(job, "subtitles")
              ELSE run_backend(job, "subtitles", "08_subtitled.mp4", outcome)
    /\ UNCHANGED manager

\* Step 9: the video is copied to output_path and execute returns.
Finalize(outcome) ==
    /\ job.pc = "finalize"
    /\ job' = IF outcome = "ok"
              THEN [pass_through(job, "finalize") EXCEPT !.output_written = TRUE]
              ELSE on_exception([job EXCEPT !.trace = Append(@, "finalize")],
                                "OSError")
    /\ UNCHANGED manager

\* process_video after execute has returned: the status becomes completed
\* and the output file is returned.
Complete ==
    /\ job.pc = "executed"
    /\ job' = [job EXCEPT !.pc = "done", !.status = "completed",
                          !.returned = TRUE]
    /\ UNCHANGED manager

\* One request: process_video and the pipeline it runs.
NextPipeline ==
    \/ \E script \in Scripts, outcome \in CopyOutcomes : StartJob(script, outcome) /\ UNCHANGED worker
    \/ \E outcome \in Outcomes : Normalize(outcome) /\ UNCHANGED worker
    \/ \E outcome \in Outcomes : DynamicAudio(outcome) /\ UNCHANGED worker
    \/ RegisterCuts /\ UNCHANGED worker
    \/ \E outcome \in Outcomes : JumpCuts(outcome) /\ UNCHANGED worker
    \/ ResyncSubtitles /\ UNCHANGED worker
    \/ \E outcome \in Outcomes : Highlights(outcome) /\ UNCHANGED worker
    \/ Transitions /\ UNCHANGED worker
    \/ \E outcome \in Outcomes : ColorGrading(outcome) /\ UNCHANGED worker
    \/ \E outcome \in Outcomes : AspectRatio(outcome) /\ UNCHANGED worker
    \/ \E outcome \in Outcomes : BurnSubtitles(outcome) /\ UNCHANGED worker
    \/ \E outcome \in CopyOutcomes : Finalize(outcome) /\ UNCHANGED worker
    \/ Complete /\ UNCHANGED worker

SpecPipeline == Init /\ [][NextPipeline]_vars

-----------------------------------------------------------------------------
(* A request to cancel a running job *)

\* The client asks for the job to be cancelled while execute runs.  The
\* number of stages started so far is remembered (-1: no request); nothing
\* in process_video or execute reads the request.
RequestCancel ==
    /\ job.pc \notin {"idle", "executed", "done", "failed"}
    /\ job.cancel_at < 0
    /\ job' = [job EXCEPT !.cancel_at = Len(job.trace)]
    /\ UNCHANGED manager

\* Plans in which every step of execute has work to do.
FullScripts ==
    {script \in Scripts :
        /\ script.normalize /\ script.audio = "volume" /\ script.transitions
        /\ script.cuts = <<TimeInterval(0, 1)>>
        /\ script.highlights # <<>>
        /\ script.subtitles # <<>>}

\* One request whose client may ask for cancellation at any time.
NextCancel ==
    \/ \E script \in FullScripts, outcome \in CopyOutcomes : StartJob(script, outcome) /\ UNCHANGED worker
    \/ \E outcome \in Outcomes : Normalize(outcome) /\ UNCHANGED worker
    \/ \E outcome \in Outcomes : DynamicAudio(outcome) /\ UNCHANGED worker
    \/ RegisterCuts /\ UNCHANGED worker
    \/ \E outcome \in Outcomes : JumpCuts(outcome) /\ UNCHANGED worker
    \/ ResyncSubtitles /\ UNCHANGED worker
    \/ \E outcome \in Outcomes : Highlights(outcome) /\ UNCHANGED worker
    \/ Transitions /\ UNCHANGED worker
    \/ \E outcome \in Outcomes : ColorGrading(outcome) /\ UNCHANGED worker
    \/ \E outcome \in Outcomes : AspectRatio(outcome) /\ UNCHANGED worker
    \/ \E outcome \in Outcomes : BurnSubtitles(outcome) /\ UNCHANGED worker
    \/ \E outcome \in CopyOutcomes : Finalize(outcome) /\ UNCHANGED worker
    \/ Complete /\ UNCHANGED worker
    \/ RequestCancel /\ UNCHANGED worker

SpecCancel == Init /\ [][NextCancel]_vars

-----------------------------------------------------------------------------
(* Two jobs of one server process *)

\* process_video calls execute without awaiting, so the event loop runs one
\* pipeline at a time; cleanup_temp_files is a background task that runs in
\* a thread after the response.
InPipeline(j) == worker.pc[j] \in {"color", "aspect", "finalize", "executed"}

LoopFree == \A j \in JobIds : ~InPipeline(j)

\* A step of the pipeline of job j that invokes the backend to write file
\* output in the processing directory, and then goes to pc next.
WorkerStage(j, output, next, outcome) ==
    CASE outcome = "ok" ->
             [worker EXCEPT !.pc[j] = next, !.current_video[j] = output,
                            !.processing[output] = j]
      [] outcome = "ffmpeg_error" -> [worker EXCEPT !.pc[j] = next]
      [] outcome = "exception" ->
             [worker EXCEPT !.pc[j] = "failed", !.job_status[j] = "failed"]

\* process_video for job j up to the construction of its pipeline: the
\* upload is saved under the job's own name and the status entry is created.
WorkerStart(j) ==
    /\ worker.pc[j] = "idle"
    /\ LoopFree
    /\ worker' = [worker EXCEPT !.pc[j] = "color",
                                !.current_video[j] = "input.mp4",
                                !.job_status[j] = "processing"]
    /\ UNCHANGED <<manager, job>>

\* Step 6 of job j writes 07_color_graded.mp4 in the shared directory.
WorkerColorGrading(j, outcome) ==
    /\ worker.pc[j] = "color"
    /\ worker' = WorkerStage(j, "07_color_graded.mp4", "aspect", outcome)
    /\ UNCHANGED <<manager, job>>

\* Step 7 of job j writes 09_final_output.mp4 in the shared directory.
WorkerAspectRatio(j, outcome) ==
    /\ worker.pc[j] = "aspect"
    /\ worker' = WorkerStage(j, "09_final_output.mp4", "finalize", outcome)
    /\ UNCHANGED <<manager, job>>

\* Step 9 of job j copies its working video to outputs/<job_id>_output.mp4.
WorkerFinalize(j, outcome) ==
    /\ worker.pc[j] = "finalize"
    /\ worker' = IF outcome = "ok"
                 THEN [worker EXCEPT !.pc[j] = "executed",
                                     !.outputs = @ \cup {j}]
                 ELSE [worker EXCEPT !.pc[j] = "failed",
                                     !.job_status[j] = "failed"]
    /\ UNCHANGED <<manager, job>>

\* process_video for job j after execute: status completed, the cleanup is
\* scheduled as a background task and the response is returned.
WorkerComplete(j) ==
    /\ worker.pc[j] = "executed"
    /\ worker' = [worker EXCEPT !.pc[j] = "cleanup",
                                !.job_status[j] = "completed"]
    /\ UNCHANGED <<manager, job>>

\* cleanup_temp_files(job_id, keep_output=True): the input of the job is
\* removed and the whole processing directory is deleted.
WorkerCleanup(j) ==
    /\ worker.pc[j] = "cleanup"
    /\ worker' = [worker EXCEPT !.pc[j] = "done",
                                !.processing = [f \in TempFiles |-> "none"]]
    /\ UNCHANGED <<manager, job>>

NextWorker ==
    \/ \E j \in JobIds : WorkerStart(j)
    \/ \E j \in JobIds, outcome \in BackendOutcomes : WorkerColorGrading(j, outcome)
    \/ \E j \in JobIds, outcome \in BackendOutcomes : WorkerAspectRatio(j, outcome)
    \/ \E j \in JobIds, outcome \in CopyOutcomes : WorkerFinalize(j, outcome)
    \/ \E j \in JobIds : WorkerComplete(j)
    \/ \E j \in JobIds : WorkerCleanup(j)

SpecWorker == Init /\ [][NextWorker]_vars

-----------------------------------------------------------------------------
(* Reference definitions for the properties below.  They describe the      *)
(* registered cuts as a set of unit cells of the original axis and do not  *)
(* use the merge, the sort or the dirty flag.                              *)

Registered == {removed_intervals[i] : i \in 1..Len(removed_intervals)}

\* The cell [i, i+1] lies inside some registered cut.
CellCut(i) == \E c \in Registered : c.start <= i /\ i + 1 <= c.end

Cells == 0..(original_duration - 1)

\* The maximal runs of cut cells: what the merged cuts ought to be.
RefMerged ==
    {c \in [start : 0..original_duration, end : 0..original_duration] :
        /\ c.start < c.end
        /\ \A i \in c.start..(c.end - 1) : CellCut(i)
        /\ (c.start = 0 \/ ~CellCut(c.start - 1))
        /\ (c.end = original_duration \/ ~CellCut(c.end))}

\* The maximal runs of cells that are not cut: what the kept segments ought to be.
RefKept ==
    {k \in (0..original_duration) \X (0..original_duration) :
        /\ k[1] < k[2]
        /\ \A i \in k[1]..(k[2] - 1) : ~CellCut(i)
        /\ (k[1] = 0 \/ CellCut(k[1] - 1))
        /\ (k[2] = original_duration \/ CellCut(k[2]))}

\* Summed duration of the merged cuts that end at or before t.
RefRemovedBefore(t) ==
    Cardinality({i \in Cells : \E c \in RefMerged : c.end <= t /\ c.start <= i /\ i < c.end})

StrictlyInside(c, t) == c.start < t /\ t < c.end

\* t is a point of the original axis outside every (closed) merged cut.
RefValid(t) ==
    /\ 0 <= t /\ t <= original_duration
    /\ ~\E c \in RefMerged : contains(c, t)

\* The results the queries return in the current state.
MapNow(t) == map_timestamp(t, original_duration, removed_intervals, sorted)
ValidNow(t) == validate_timestamp(t, original_duration, removed_intervals, sorted)

-----------------------------------------------------------------------------
(* Properties *)

\* C1: a timestamp strictly inside a merged cut c maps to c.start minus the
\* summed duration of the merged cuts that end at or before c.start.
C1_InsideCutSnapsToCutStart ==
    op = "map_timestamp" =>
        \A c \in RefMerged :
            StrictlyInside(c, args[1]) => ret = c.start - RefRemovedBefore(c.start)

\* C2: a subtitle with start < end whose start is valid and whose end lies
\* strictly inside a merged cut c is emitted, with start mapped and end at the
\* edited-axis position of c.start.
C2_EndInsideCutIsClipped ==
    op = "adjust_subtitle_timestamps" =>
        \A i \in 1..Len(args[1]) :
            LET sub == args[1][i] IN
            \A c \in RefMerged :
                (sub.start < sub.end /\ RefValid(sub.start) /\ StrictlyInside(c, sub.end))
                => \E j \in 1..Len(ret) :
                       /\ ret[j].text = sub.text
                       /\ ret[j].start = sub.start - RefRemovedBefore(sub.start)
                       /\ ret[j].end = c.start - RefRemovedBefore(c.start)

\* A subtitle is dropped by the resync, in terms of the two queries.
Dropped(sub) ==
    \/ (~ValidNow(sub.start) /\ ~ValidNow(sub.end))
    \/ MapNow(sub.end) <= MapNow(sub.start)

\* C3: the resync drops a subtitle iff both its ends are invalid or its
\* mapped end is not after its mapped start; the others are emitted, once
\* each, and no error is raised.
C3_DropExactly ==
    op = "adjust_subtitle_timestamps" =>
        /\ ~raised
        /\ Len(ret) = Cardinality({i \in 1..Len(args[1]) : ~Dropped(args[1][i])})
        /\ \A i \in 1..Len(args[1]) :
               Dropped(args[1][i]) <=> ~\E j \in 1..Len(ret) : ret[j].text = args[1][i].text

\* Witness of C3: one resync call that dropped a subtitle with a valid start.
C3_Witness ==
    /\ op = "adjust_subtitle_timestamps"
    /\ Len(args[1]) = 1
    /\ ret = <<>>
    /\ RefValid(args[1][1].start)
    /\ args[1][1].start < args[1][1].end
    /\ Len(removed_intervals) = 2

\* C4: a timestamp of [0, original_duration] that is not strictly inside a
\* merged cut maps to itself minus the summed duration of the merged cuts
\* that end at or before it.
C4_OutsideCutShift ==
    (op = "map_timestamp" /\ 0 <= args[1] /\ args[1] <= original_duration
        /\ ~\E c \in RefMerged : StrictlyInside(c, args[1]))
    => ret = args[1] - RefRemovedBefore(args[1])

\* Witness of C4: a timestamp after two merged cuts, shifted left by both.
C4_Witness ==
    /\ op = "map_timestamp"
    /\ Cardinality(RefMerged) = 2
    /\ \A c \in RefMerged : c.end < args[1]
    /\ args[1] <= original_duration
    /\ ret < args[1]

\* C5: over valid timestamps map_timestamp is non-decreasing.
C5_MonotoneOnValid ==
    LET m == [t \in Times |-> MapNow(t)]
        v == [t \in Times |-> ValidNow(t)]
    IN \A t1 \in Times, t2 \in Times :
           (t1 < t2 /\ v[t1] /\ v[t2]) => m[t1] <= m[t2]

\* Witness of C5: map_timestamp was called and a cut that does not start at
\* 0 lies between two valid timestamps.
C5_Witness ==
    /\ op = "map_timestamp"
    /\ \E t1 \in Times, t2 \in Times, c \in RefMerged :
           /\ ValidNow(t1) /\ ValidNow(t2)
           /\ 0 < t1 /\ t1 < c.start /\ c.end < t2
           /\ MapNow(t2) - MapNow(t1) < t2 - t1

\* C6: add_cut raises exactly for start < 0, end > original_duration or
\* start >= end; a raising call leaves the TimelineManager as it was and a
\* successful call appends exactly the one cut.
C6_AddCutRejectsExactly ==
    [][op' = "add_cut" =>
        \A s \in Times, e \in Times :
            AddCut(s, e) =>
                /\ raised' <=> (s < 0 \/ e > original_duration \/ s >= e)
                /\ raised' => timeline' = timeline
                /\ ~raised' =>
                       /\ removed_intervals' = Append(removed_intervals, TimeInterval(s, e))
                       /\ original_duration' = original_duration]_vars

\* Witness of C6: a rejected add_cut on a TimelineManager that holds a cut.
C6_Witness ==
    /\ op = "add_cut"
    /\ raised
    /\ Len(removed_intervals) = 1

\* C7: get_edited_duration returns original_duration minus the time covered
\* by the registered cuts, each covered tick counted once, and the result
\* lies in [0, original_duration].
C7_EditedDuration ==
    op = "get_edited_duration" =>
        /\ ret = original_duration - Cardinality({i \in Cells : CellCut(i)})
        /\ 0 <= ret /\ ret <= original_duration

\* Witness of C7: two registered cuts that overlap without being equal.
C7_Witness ==
    /\ op = "get_edited_duration"
    /\ Len(removed_intervals) = 2
    /\ removed_intervals[1] # removed_intervals[2]
    /\ overlaps(removed_intervals[1], removed_intervals[2])
    /\ ret > 0

\* C8: the merged cuts are sorted by start and two consecutive ones are
\* separated by a gap (a.end < b.start).
C8_MergedSortedAndSeparated ==
    op = "_merge_overlapping_cuts" =>
        /\ \A i \in 1..Len(ret) : ret[i].start < ret[i].end
        /\ \A i \in 1..(Len(ret) - 1) :
               /\ ret[i].start < ret[i + 1].start
               /\ ret[i].end < ret[i + 1].start

\* Witness of C8: two touching cuts merged into one.
C8_Witness ==
    /\ op = "_merge_overlapping_cuts"
    /\ Len(removed_intervals) = 2
    /\ \E a \in Registered, b \in Registered : a.end = b.start
    /\ Len(ret) = 1

\* C9: the merged cuts cover exactly what the registered cuts cover, at the
\* ticks and between them.
C9_MergedCoverUnion ==
    op = "_merge_overlapping_cuts" =>
        /\ \A t \in 0..original_duration :
               (\E i \in 1..Len(ret) : contains(ret[i], t))
               <=> (\E c \in Registered : contains(c, t))
        /\ \A i \in Cells :
               (\E k \in 1..Len(ret) : ret[k].start <= i /\ i + 1 <= ret[k].end)
               <=> CellCut(i)

\* Witness of C9: a cut nested in another, merged into the outer one.
C9_Witness ==
    /\ op = "_merge_overlapping_cuts"
    /\ Len(ret) = 1
    /\ \E a \in Registered, b \in Registered :
           a.start < b.start /\ b.end < a.end /\ ret[1] = a

\* C10: get_kept_segments returns the maximal uncut intervals of
\* [0, original_duration], ascending and disjoint.
C10_KeptSegments ==
    op = "get_kept_segments" =>
        /\ {ret[i] : i \in 1..Len(ret)} = RefKept
        /\ Len(ret) = Cardinality(RefKept)
        /\ \A i \in 1..(Len(ret) - 1) : ret[i][2] < ret[i + 1][1]
        /\ (removed_intervals = <<>> => ret = << <<0, original_duration>> >>)
        /\ ((\A i \in Cells : CellCut(i)) => ret = <<>>)

\* Witness of C10: two cuts that together remove the whole video.
C10_Witness ==
    /\ op = "get_kept_segments"
    /\ ret = <<>>
    /\ Len(removed_intervals) = 2
    /\ removed_intervals[1].end = removed_intervals[2].start

-----------------------------------------------------------------------------
(* C11 *)

\* Total length of a list of <<start, end>> segments.
RECURSIVE SumSegments(_)
SumSegments(segments) ==
    IF segments = <<>> THEN 0
    ELSE (segments[1][2] - segments[1][1]) + SumSegments(Tail(segments))

\* C11: in every reachable state the kept segments and the merged cuts
\* partition the original axis: the kept durations plus the merged cut
\* durations equal original_duration, so the kept total is
\* get_edited_duration(); the list get_kept_segments returns has that total.
C11_KeptPlusCutsIsDuration ==
    LET kept == get_kept_segments(original_duration, removed_intervals, sorted)
        merged_cuts == merge_overlapping_cuts(removed_intervals, sorted)
        edited == get_edited_duration(original_duration, removed_intervals,
                                      sorted)
    IN /\ SumSegments(kept) + SumDurations(merged_cuts) = original_duration
       /\ SumSegments(kept) = edited
       /\ op = "get_kept_segments" => SumSegments(ret) = edited

\* get_kept_segments has returned two segments around a cut that came from
\* merging two registered cuts.
C11_Witness ==
    /\ op = "get_kept_segments"
    /\ Len(ret) = 2
    /\ Len(removed_intervals) = 2
    /\ Len(merge_overlapping_cuts(removed_intervals, sorted)) = 1

-----------------------------------------------------------------------------
(* C12 *)

\* C12: validate_timestamp(t) is true exactly when 0 <= t <= original_duration
\* and no merged cut c has c.start <= t <= c.end: the end points of a cut are
\* invalid, and so is every timestamp outside the original axis.
C12_ValidateExactly ==
    op = "validate_timestamp" =>
        LET t == args[1] IN
        /\ ret = (/\ 0 <= t /\ t <= original_duration
                  /\ ~\E c \in RefMerged : c.start <= t /\ t <= c.end)
        /\ (\E c \in RefMerged : t = c.start \/ t = c.end) => ret = FALSE
        /\ (t < 0 \/ t > original_duration) => ret = FALSE

\* validate_timestamp has rejected the end point of a cut.
C12_Witness ==
    /\ op = "validate_timestamp"
    /\ ret = FALSE
    /\ \E c \in RefMerged : args[1] = c.end /\ c.end < original_duration

-----------------------------------------------------------------------------
(* C13 *)

\* C13: map_timestamp clamps out-of-range inputs whatever cuts are registered:
\* a timestamp below 0 maps to 0 and a timestamp above original_duration maps
\* to the edited duration, original_duration minus the length that is cut.
C13_MapClamps ==
    op = "map_timestamp" =>
        /\ args[1] < 0 => ret = 0
        /\ args[1] > original_duration =>
               /\ ret = original_duration - Cardinality({i \in Cells : CellCut(i)})
               /\ ret = get_edited_duration(original_duration,
                                            removed_intervals, sorted)

\* map_timestamp has clamped a timestamp after the end of a video with cuts.
C13_Witness ==
    /\ op = "map_timestamp"
    /\ args[1] > original_duration
    /\ Len(removed_intervals) = 2
    /\ ret < original_duration

-----------------------------------------------------------------------------
(* C14 *)

\* C14: merging is idempotent.  After the merged cuts of a TimelineManager
\* have been registered into a fresh TimelineManager of the same duration,
\* the fresh one holds every one of them and answers with the same merged
\* list, the same edited duration and the same kept segments.
C14_MergeIdempotent ==
    op = "reregister" =>
        /\ Len(removed_intervals) = Len(ret.merged_cuts)
        /\ merge_overlapping_cuts(removed_intervals, sorted) = ret.merged_cuts
        /\ get_edited_duration(original_duration, removed_intervals, sorted)
               = ret.edited_duration
        /\ get_kept_segments(original_duration, removed_intervals, sorted)
               = ret.kept_segments

\* Three cuts that merged into two have been registered again.
C14_Witness ==
    /\ op = "reregister"
    /\ Len(ret.merged_cuts) = 2
    /\ ret.edited_duration = original_duration - 3
    /\ \E c \in RefMerged : duration(c) = 2

-----------------------------------------------------------------------------
(* C15 *)

\* The subtitles of output are subtitles of input in the same relative order,
\* each with every field other than start and end as it was.
SameOrderAndPayload(input, output) ==
    \E f \in [1..Len(output) -> 1..Len(input)] :
        /\ \A j, k \in 1..Len(output) : j < k => f[j] < f[k]
        /\ \A j \in 1..Len(output) :
               /\ DOMAIN output[j] = DOMAIN input[f[j]]
               /\ \A field \in DOMAIN output[j] \ {"start", "end"} :
                      output[j][field] = input[f[j]][field]

-----------------------------------------------------------------------------
(* C16 *)

\* The stages in the order in which a job is to run them.
StageOrder ==
    <<"normalize", "audio", "jump_cuts", "resync", "highlights", "transitions",
      "color", "aspect", "subtitles", "finalize">>

StagePosition(stage) == CHOOSE i \in 1..Len(StageOrder) : StageOrder[i] = stage

\* Stage a does not run after stage b.
RunsBefore(a, b) ==
    \A i, k \in 1..Len(job.trace) :
        (job.trace[i] = a /\ job.trace[k] = b) => i < k

\* C16: in every execution of ProcessingPipeline.execute the stages that run
\* run in one fixed order, whatever the plan holds: audio normalization before
\* dynamic audio adjustment, jump-cuts before subtitle resync, subtitle resync
\* and aspect-ratio conversion before subtitle burn-in, finalize last.
C16_FixedStageOrder ==
    /\ \A i \in 1..Len(job.trace) :
           \E n \in 1..Len(StageOrder) : StageOrder[n] = job.trace[i]
    /\ \A i, k \in 1..Len(job.trace) :
           i < k => StagePosition(job.trace[i]) < StagePosition(job.trace[k])
    /\ RunsBefore("normalize", "audio")
    /\ RunsBefore("jump_cuts", "resync")
    /\ RunsBefore("resync", "subtitles")
    /\ RunsBefore("aspect", "subtitles")
    /\ \A i \in 1..Len(job.trace) :
           job.trace[i] = "finalize" => i = Len(job.trace)

\* A job has run every stage and has returned its output.
C16_Witness ==
    /\ job.pc = "done"
    /\ job.trace = StageOrder

-----------------------------------------------------------------------------
(* C17 *)

\* C17: when the subtitle resync of a job starts, the TimelineManager of the
\* job holds every cut of the plan: no cut that the jump-cuts stage handed to
\* the rendering backend is missing from the timeline.
C17_TimelineHoldsPlanCuts ==
    (job.pc = "resync" /\ job.script.subtitles # <<>>) =>
        /\ \A i \in 1..Len(job.script.cuts) : job.script.cuts[i] \in Registered
        /\ \A i \in 1..Len(job.backend_cuts) : job.backend_cuts[i] \in Registered

-----------------------------------------------------------------------------
(* C18 *)

\* C18: if the rendering backend fails during a stage, the pipeline aborts:
\* the failing stage is the last one started, and execute has ended in a
\* failure that carries the cause.
C18_BackendFailureAborts ==
    job.backend_errors # {} =>
        /\ job.pc = "failed"
        /\ job.exception # "none"
        /\ job.backend_errors = {job.trace[Len(job.trace)]}

-----------------------------------------------------------------------------
(* C19 *)

\* C19: for a plan with cuts and highlights, the highlights handed to the
\* highlight-effects stage are the ones the resync returns for the highlights
\* of the plan on the TimelineManager of the job.
C19_HighlightsAreRemapped ==
    (job.script.cuts # <<>> /\ job.handed_highlights # "none") =>
        job.handed_highlights =
            adjust_subtitle_timestamps(job.script.highlights, original_duration,
                                       removed_intervals, sorted)

-----------------------------------------------------------------------------
(* C20 *)

-----------------------------------------------------------------------------
(* C21 *)

\* C21: cancellation is cooperative between stages.  Once cancellation has
\* been requested, at most the stage that was about to run completes: no
\* further stage is started.
C21_CancelStopsNextStage ==
    job.cancel_at >= 0 => Len(job.trace) <= job.cancel_at + 1

-----------------------------------------------------------------------------
(* C22 *)

\* C22: concurrent jobs share no mutable state.  While a job is in its
\* pipeline, the working file it holds exists and was written by that job:
\* no step of the other job has overwritten or deleted it.
C22_JobsShareNothing ==
    \A j \in JobIds :
        (InPipeline(j) /\ worker.current_video[j] \in TempFiles) =>
            worker.processing[worker.current_video[j]] = j

-----------------------------------------------------------------------------
(* C23 *)

\* The job is about to take a step whose applicability predicate is false
\* for the plan.
Inapplicable ==
    \/ job.pc = "normalize" /\ ~job.script.normalize
    \/ job.pc = "audio" /\ job.script.audio = "none"
    \/ job.pc = "register_cuts" /\ job.script.cuts = <<>>
    \/ job.pc = "resync" /\ job.script.subtitles = <<>>
    \/ job.pc = "highlights" /\ job.script.highlights = <<>>
    \/ job.pc = "transitions" /\ ~job.script.transitions
    \/ job.pc = "subtitles" /\ job.script.subtitles = <<>>

\* C23: a stage whose applicability predicate is false for the plan is a
\* pass-through: the working video after the step is the handle it was
\* before, the stage is not run and the backend is not invoked, and the
\* pipeline goes on to a later step without a failure.
C23_InapplicableStagePassesThrough ==
    [][Inapplicable =>
          /\ job'.current_video = job.current_video
          /\ job'.trace = job.trace
          /\ job'.backend_errors = job.backend_errors
          /\ job'.exception = "none"
          /\ job'.status = job.status
          /\ job'.pc \notin {job.pc, "failed"}]_vars

\* A job whose plan switches every optional stage off has returned the video
\* written by the aspect-ratio stage.
C23_Witness ==
    /\ job.pc = "done"
    /\ job.trace = <<"color", "aspect", "finalize">>
    /\ job.current_video = "09_final_output.mp4"
    /\ job.script = EmptyScript

-----------------------------------------------------------------------------
(* C24 *)

\* C24: get_summary agrees with the other queries.  total_cuts is the number
\* of cuts add_cut has accepted, unmerged; merged_cuts is the number of
\* merged cuts and is at most total_cuts; total_removed is original_duration
\* minus edited_duration; kept_segments is the length of get_kept_segments()
\* and is at most merged_cuts + 1.
C24_SummaryConsistent ==
    op = "get_summary" =>
        /\ ret.original_duration = original_duration
        /\ ret.total_cuts = Len(removed_intervals)
        /\ ret.merged_cuts = Len(merge_overlapping_cuts(removed_intervals, sorted))
        /\ ret.merged_cuts = Cardinality(RefMerged)
        /\ ret.merged_cuts <= ret.total_cuts
        /\ ret.edited_duration =
               get_edited_duration(original_duration, removed_intervals, sorted)
        /\ ret.total_removed = original_duration - ret.edited_duration
        /\ ret.kept_segments =
               Len(get_kept_segments(original_duration, removed_intervals, sorted))
        /\ ret.kept_segments <= ret.merged_cuts + 1

\* get_summary has reported two registered cuts that merge into one.
C24_Witness ==
    /\ op = "get_summary"
    /\ ret.total_cuts = 2
    /\ ret.merged_cuts = 1
    /\ ret.kept_segments = 2

-----------------------------------------------------------------------------
(* C25 *)

\* C25: both end points of a merged cut c map to the same edited timestamp,
\* c.start minus the summed duration of the merged cuts before c, while
\* validate_timestamp is false at both end points.
C25_BoundaryAsymmetry ==
    /\ op = "map_timestamp" =>
           \A c \in RefMerged :
               args[1] \in {c.start, c.end} =>
                   ret = c.start - RefRemovedBefore(c.start)
    /\ op = "validate_timestamp" =>
           \A c \in RefMerged : args[1] \in {c.start, c.end} => ret = FALSE
    /\ \A c \in RefMerged :
           /\ MapNow(c.start) = MapNow(c.end)
           /\ ~ValidNow(c.start)
           /\ ~ValidNow(c.end)

\* map_timestamp has mapped the end of the second of two merged cuts.
C25_Witness ==
    /\ op = "map_timestamp"
    /\ \E c, d \in RefMerged :
           /\ d.end < c.start
           /\ args[1] = c.end
           /\ ret = c.start - duration(d)

-----------------------------------------------------------------------------
(* C26 *)

\* The cuts of a list in ascending order of start and, for equal starts, of
\* end: one list for every multiset of cuts.
RECURSIVE InsertCanonical(_, _)
InsertCanonical(x, s) ==
    IF s = <<>> THEN <<x>>
    ELSE IF \/ Head(s).start < x.start
            \/ (Head(s).start = x.start /\ Head(s).end <= x.end)
         THEN <<Head(s)>> \o InsertCanonical(x, Tail(s))
         ELSE <<x>> \o s

RECURSIVE Canonical(_)
Canonical(s) ==
    IF s = <<>> THEN <<>> ELSE InsertCanonical(Head(s), Canonical(Tail(s)))

\* C26: every query result depends only on original_duration and on the
\* multiset of registered cuts.  Whatever the order of the add_cut calls and
\* the queries called between them, the result is the one a TimelineManager
\* gives that has just been fed the same cuts in canonical order, so no
\* result comes from a stale sort or merge.
C26_QueriesDependOnCutsOnly ==
    LET canon == Canonical(removed_intervals)
        flag == (canon = <<>>)
    IN /\ merge_overlapping_cuts(removed_intervals, sorted)
              = merge_overlapping_cuts(canon, flag)
       /\ op = "_merge_overlapping_cuts" =>
              ret = merge_overlapping_cuts(canon, flag)
       /\ op = "map_timestamp" =>
              ret = map_timestamp(args[1], original_duration, canon, flag)
       /\ op = "get_edited_duration" =>
              ret = get_edited_duration(original_duration, canon, flag)
       /\ op = "get_kept_segments" =>
              ret = get_kept_segments(original_duration, canon, flag)
       /\ op = "validate_timestamp" =>
              ret = validate_timestamp(args[1], original_duration, canon, flag)

\* map_timestamp has answered for a timestamp after two separate cuts, on a
\* list of cuts that a query has sorted.
C26_Witness ==
    /\ op = "map_timestamp"
    /\ Len(removed_intervals) = 2
    /\ removed_intervals[1].start < removed_intervals[2].start
    /\ removed_intervals[1].end < removed_intervals[2].start
    /\ sorted
    /\ args[1] > removed_intervals[2].end
    /\ ret = args[1] - duration(removed_intervals[1])
                      - duration(removed_intervals[2])

-----------------------------------------------------------------------------
(* C27 *)

\* C27: for every input t, inside a cut, on a boundary or out of range,
\* 0 <= map_timestamp(t) <= get_edited_duration().
C27_MapWithinEditedAxis ==
    op = "map_timestamp" =>
        /\ 0 <= ret
        /\ ret <= get_edited_duration(original_duration, removed_intervals, sorted)

-----------------------------------------------------------------------------
(* C28 *)

\* C28: the segments apply_jump_cuts keeps cover the same part of the
\* original axis as get_kept_segments() of the timeline in which the
\* pipeline has registered the cuts of the plan, also when add_cut rejects
\* one of them.
C28_KeepSegmentsMatchTimeline ==
    (\E n \in 1..Len(job.trace) : job.trace[n] = "jump_cuts") =>
        \A i \in Cells :
            (\E n \in 1..Len(job.keep_segments) :
                 job.keep_segments[n][1] <= i /\ i + 1 <= job.keep_segments[n][2])
            <=> ~CellCut(i)

-----------------------------------------------------------------------------
(* C29 *)

\* C29: at subtitle burn-in the subtitles are on the time axis of the working
\* video.  When the backend invocation of the jump-cuts stage has failed and
\* the uncut video was passed on, every subtitle of the plan with start < end
\* is burned in with the timestamps the plan gave it, not shifted.
C29_SubtitlesOnVideoAxis ==
    (/\ job.pc = "subtitles"
     /\ "jump_cuts" \in job.backend_errors
     /\ op = "adjust_subtitle_timestamps")
    => \A i \in 1..Len(args[1]) :
           args[1][i].start < args[1][i].end =>
               \E n \in 1..Len(job.script.subtitles) :
                   job.script.subtitles[n] = args[1][i]

-----------------------------------------------------------------------------
(* C30 *)

\* Length of the part of [sub.start, sub.end] that no cut removes.
SurvivingLength(sub) ==
    Cardinality({i \in Cells :
                    ~CellCut(i) /\ sub.start <= i /\ i + 1 <= sub.end})

\* C30: the resync drops a subtitle only when nothing of its interval
\* survives.  A subtitle with start < end of which a piece of positive length
\* lies in kept segments is emitted with a length equal to that of its
\* surviving part; stated here for the subtitles neither end of which lies
\* strictly inside a cut.
C30_SurvivingSubtitleIsEmitted ==
    op = "adjust_subtitle_timestamps" =>
        \A i \in 1..Len(args[1]) :
            LET sub == args[1][i] IN
            (/\ sub.start < sub.end
             /\ SurvivingLength(sub) > 0
             /\ ~\E c \in RefMerged :
                    StrictlyInside(c, sub.start) \/ StrictlyInside(c, sub.end))
            => \E n \in 1..Len(ret) :
                   /\ ret[n].text = sub.text
                   /\ ret[n].end - ret[n].start = SurvivingLength(sub)

====
